---- MODULE Spec2Model ----
(***************************************************************************)
(* Event dispatch and propensity pipeline of swg-js:                       *)
(*   src/runtime/client-event-manager.js  (ClientEventManager)             *)
(*   src/runtime/propensity-server.js     (PropensityServer)               *)
(*                                                                         *)
(* JavaScript values are modelled by tagged strings and records:           *)
(*   "null", "undefined", "true", "false" stand for the JS values of the   *)
(*   same name, "string" for some string that is none of the expected      *)
(*   values, and a parameter object is a record whose field `type` says    *)
(*   what kind of value it is.                                             *)
(***************************************************************************)
EXTENDS Integers, Sequences, FiniteSets, TLC

(***************************************************************************)
(* Bounds of the model.                                                    *)
(***************************************************************************)
\* number of logEvent calls that pass validation (Spec)
MaxEvents == 2
\* length of the filterer registry
MaxFilterers == 2
\* length of the listener registry
MaxListeners == 2
\* The longest scores array of a scoring response.
MaxScores == 2
\* The most requests the Propensity Server's callers make directly.
MaxRequests == 3

(***************************************************************************)
(* Event taxonomy (../proto/api_messages, ../api/client-event-manager-api) *)
(***************************************************************************)
\* Members of AnalyticsEvent: one with no publisher equivalent, one with a
\* publisher equivalent, and the one the Propensity Server special-cases.
AnalyticsEvent == {"UNKNOWN", "IMPRESSION_PAYWALL", "EVENT_SUBSCRIPTION_STATE"}

EventOriginator ==
  {"SWG_CLIENT", "PROPENSITY_CLIENT", "PUBLISHER_CLIENT", "AMP_CLIENT",
   "SHOWCASE_CLIENT"}

FilterResult == {"PROCESS_EVENT", "CANCEL_EVENT"}

\* Values of the additionalParameters field.  A plain object carries the keys
\* the Propensity Server reads or writes; "EventParams" is an instance of the
\* proto class EventParams (an object too).
Params(type, state, productsOrSkus, is_active) ==
  [type |-> type, state |-> state, productsOrSkus |-> productsOrSkus,
   is_active |-> is_active]

NullParams == Params("null", "undefined", "undefined", "undefined")
StringParams == Params("string", "undefined", "undefined", "undefined")
EventParamsInstance == Params("EventParams", "undefined", "undefined", "undefined")
EmptyObject == Params("object", "undefined", "undefined", "undefined")
StateObject == Params("object", "s", "p", "undefined")

ParamValues ==
  {NullParams, StringParams, EventParamsInstance, EmptyObject, StateObject}

\* A ClientEvent as a caller may pass it to logEvent; `type` is "object" for
\* an object and "null" for a value that is no object at all.
ClientEvent(type, eventType, eventOriginator, additionalParameters, isFromUserAction) ==
  [type |-> type, eventType |-> eventType, eventOriginator |-> eventOriginator,
   additionalParameters |-> additionalParameters,
   isFromUserAction |-> isFromUserAction]

NotAnObject == ClientEvent("null", "undefined", "undefined", NullParams, "undefined")

\* Every event value of the model, valid or not.
ClientEvents ==
  {NotAnObject} \cup
  { ClientEvent("object", t, o, p, u) :
      t \in AnalyticsEvent \cup {"string"},
      o \in EventOriginator \cup {"string"},
      p \in ParamValues,
      u \in {"null", "true", "false", "string"} }

(***************************************************************************)
(* ../utils/types                                                          *)
(***************************************************************************)
isObject(v) == v.type \in {"object", "EventParams"}

isBoolean(v) == v \in {"true", "false"}

isEnumValue(enumObj, v) == v \in enumObj

isFunction(v) == v.callable

(***************************************************************************)
(* client-event-manager.js                                                 *)
(***************************************************************************)
\* validateEvent without its check of isFromUserAction.
validateEvent_NoUserActionCheck(event) ==
  /\ isObject(event)
  /\ isEnumValue(AnalyticsEvent, event.eventType)
  /\ isEnumValue(EventOriginator, event.eventOriginator)
  /\ ~(~isObject(event.additionalParameters) /\ event.additionalParameters.type # "null")

\* validateEvent: TRUE when it returns, FALSE when it throws.
validateEvent(event) ==
  /\ isObject(event)
  /\ isEnumValue(AnalyticsEvent, event.eventType)
  /\ isEnumValue(EventOriginator, event.eventOriginator)
  /\ ~(~isObject(event.additionalParameters) /\ event.additionalParameters.type # "null")
  /\ ~(event.isFromUserAction # "null" /\ ~isBoolean(event.isFromUserAction))

\* isPublisherEvent without AMP_CLIENT.
isPublisherEvent_NoAmp(event) ==
  \/ event.eventOriginator = "PROPENSITY_CLIENT"
  \/ event.eventOriginator = "PUBLISHER_CLIENT"

isPublisherEvent(event) ==
  \/ event.eventOriginator = "PROPENSITY_CLIENT"
  \/ event.eventOriginator = "PUBLISHER_CLIENT"
  \/ event.eventOriginator = "AMP_CLIENT"

\* The callables and non-callables a caller may hand to the register
\* operations.  A callable is known by its name; what it does when invoked
\* is given by FiltererOutcome and ListenerOutcome below.
FiltererNames == {"fProcess", "fCancel", "fThrow"}
ListenerNames == {"lReturn", "lThrow"}
Callable(name) == [callable |-> TRUE, name |-> name]
NotAFunction == [callable |-> FALSE, name |-> "notAFunction"]

\* What a registered filterer does with an event: it returns a FilterResult
\* or throws.
FiltererOutcome(name, event) ==
  CASE name = "fProcess" -> "PROCESS_EVENT"
    [] name = "fCancel" -> "CANCEL_EVENT"
    [] OTHER -> "throw"

(***************************************************************************)
(* propensity-server.js                                                    *)
(***************************************************************************)
\* ./event-type-mapping: the publisher event of an analytics event, "null"
\* when it has none.
analyticsEventToPublisherEvent(eventType) ==
  IF eventType = "IMPRESSION_PAYWALL" THEN "IMPRESSION_PAYWALL" ELSE "null"

\* JSON.stringify of the parameters handed to sendEvent_: undefined stays
\* undefined, anything else becomes a (non-empty) string that carries the
\* keys of the object.
JSONstringify(v) ==
  IF v.type = "undefined" THEN v ELSE [v EXCEPT !.type = "json"]

Undefined == Params("undefined", "undefined", "undefined", "undefined")

\* win.document.cookie: the cookies of the page as (name, value) pairs, in
\* the order of the cookie string.
Cookie(name, value) == [name |-> name, value |-> value]
NoCookies == <<>>
OtherCookie == <<Cookie("other", "x")>>
GadsCookie == <<Cookie("other", "x"), Cookie("__gads", "ID=a b")>>
GadsCookie2 == <<Cookie("__gads", "ID=c"), Cookie("other", "x")>>
Cookies == {NoCookies, OtherCookie, GadsCookie, GadsCookie2}

\* match('(^|;)\\s*__gads\\s*=\\s*([^;]+)') followed by pop(): the value of
\* the first cookie named __gads, "null" when the match fails.
RECURSIVE gadsmatch(_)
gadsmatch(cookie) ==
  IF cookie = <<>> THEN "null"
  ELSE IF Head(cookie).name = "__gads" THEN Head(cookie).value
  ELSE gadsmatch(Tail(cookie))

\* encodeURIComponent on the cookie values of the model: '=' and ' ' are
\* escaped.
encodeURIComponent(v) ==
  CASE v = "ID=a b" -> "ID%3Da%20b"
    [] v = "ID=c" -> "ID%3Dc"
    [] OTHER -> v

\* getClientId_(): the value it returns, which is also the value clientId_
\* holds afterwards.  `!this.clientId_` holds for null (a client id is never
\* the empty string: [^;]+ matches at least one character).
getClientId_(clientId, cookie) ==
  IF clientId = "null"
  THEN IF gadsmatch(cookie) = "null" THEN "null"
       ELSE encodeURIComponent(gadsmatch(cookie))
  ELSE clientId

\* propensityUrl_(url): the url with the cookie parameter added when the
\* client id is truthy.
propensityUrl_(url, clientId) ==
  [kind |-> url.kind, value |-> url.value, extrainfo |-> url.extrainfo,
   event |-> url.event,
   cookie |-> IF clientId # "null" THEN clientId ELSE "undefined"]

\* fetcher_.fetch(this.propensityUrl_(url), init) for each url a handler
\* built, in order.
Fetch(urls, clientId, cookie) ==
  [k \in 1..Len(urls) |-> propensityUrl_(urls[k], getClientId_(clientId, cookie))]

\* sendSubscriptionState(state, productsOrSkus): the url it builds.
sendSubscriptionState(state, productsOrSkus, event) ==
  [kind |-> "states", value |-> state,
   extrainfo |-> IF productsOrSkus # "undefined"
                 THEN Params("string", "undefined", productsOrSkus, "undefined")
                 ELSE Undefined,
   event |-> event]

\* sendEvent_(event, context): the url it builds.
sendEvent_(propEvent, context, event) ==
  [kind |-> "events", value |-> propEvent, extrainfo |-> context,
   event |-> event]

\* The parameters sendEvent_ receives before serialisation (lines 167-177).
SentParameters(event) ==
  LET ap0 == IF event.additionalParameters.type = "EventParams"
             THEN Undefined ELSE event.additionalParameters
      ap1 == IF isBoolean(event.isFromUserAction) /\ ~isObject(ap0)
             THEN EmptyObject ELSE ap0
  IN IF isBoolean(event.isFromUserAction)
     THEN [ap1 EXCEPT !.is_active = event.isFromUserAction]
     ELSE ap1

\* The event as handleClientEvent_ leaves it: is_active is assigned on
\* the object additionalParameters refers to, which is the event's own
\* object unless it was replaced by undefined or by a fresh {}.
EventAfterHandling(event) ==
  IF /\ isBoolean(event.isFromUserAction)
     /\ event.additionalParameters.type = "object"
  THEN [event EXCEPT !.additionalParameters.is_active = event.isFromUserAction]
  ELSE event

\* What a listener gives back to the loop that invoked it: the requests it
\* issued, the event as it leaves it, and whether it threw.
Outcome(reqs, event, threw) ==
  [requests |-> reqs, event |-> event, threw |-> threw]

\* ForwardEvent without the EVENT_SUBSCRIPTION_STATE case: every event takes
\* the generic path.
ForwardEvent_NoStateCase(event) ==
  IF analyticsEventToPublisherEvent(event.eventType) = "null"
    THEN Outcome(<<>>, event, FALSE)
  ELSE Outcome(<<sendEvent_(analyticsEventToPublisherEvent(event.eventType),
                            JSONstringify(SentParameters(event)), event)>>,
               EventAfterHandling(event), FALSE)

\* handleClientEvent_ past its two gates (lines 156-181).
ForwardEvent(event) ==
  IF event.eventType = "EVENT_SUBSCRIPTION_STATE"
    THEN IF ~isObject(event.additionalParameters)
         \* reading a property of null: TypeError
         THEN Outcome(<<>>, event, TRUE)
         ELSE Outcome(<<sendSubscriptionState(event.additionalParameters.state,
                                              event.additionalParameters.productsOrSkus,
                                              event)>>,
                      event, FALSE)
  ELSE IF analyticsEventToPublisherEvent(event.eventType) = "null"
    THEN Outcome(<<>>, event, FALSE)
  ELSE Outcome(<<sendEvent_(analyticsEventToPublisherEvent(event.eventType),
                            JSONstringify(SentParameters(event)), event)>>,
               EventAfterHandling(event), FALSE)

\* handleClientEvent_ without the SHOWCASE_CLIENT gate.
handleClientEvent_NoShowcaseGate(event, enabled) ==
  IF ~enabled /\ event.eventOriginator # "PROPENSITY_CLIENT"
  THEN Outcome(<<>>, event, FALSE)
  ELSE ForwardEvent(event)

\* handleClientEvent_ whose flag gate makes no exception for
\* PROPENSITY_CLIENT.
handleClientEvent_NoBypass(event, enabled) ==
  IF event.eventOriginator = "SHOWCASE_CLIENT" THEN Outcome(<<>>, event, FALSE)
  ELSE IF ~enabled THEN Outcome(<<>>, event, FALSE)
  ELSE ForwardEvent(event)

\* handleClientEvent_ without the enablePropensity gate.
handleClientEvent_NoFlagGate(event, enabled) ==
  IF event.eventOriginator = "SHOWCASE_CLIENT" THEN Outcome(<<>>, event, FALSE)
  ELSE ForwardEvent(event)

\* handleClientEvent_(event), with `enabled` the value of
\* config().enablePropensity when it runs.
handleClientEvent_(event, enabled) ==
  IF event.eventOriginator = "SHOWCASE_CLIENT" THEN Outcome(<<>>, event, FALSE)
  ELSE IF ~enabled /\ event.eventOriginator # "PROPENSITY_CLIENT"
    THEN Outcome(<<>>, event, FALSE)
  ELSE ForwardEvent(event)

\* What a registered listener does when invoked with (event, eventParams).
ListenerOutcome(name, event, enabled) ==
  CASE name = "handleClientEvent_" -> handleClientEvent_(event, enabled)
    [] name = "lThrow" -> Outcome(<<>>, event, TRUE)
    [] OTHER -> Outcome(<<>>, event, FALSE)

(***************************************************************************)
(* propensity-server.js: the scoring response                              *)
(***************************************************************************)
\* JavaScript truthiness of the tagged values of the model.
Truthy(v) == v \notin {"undefined", "null", "false", "0", ""}

\* An element of response['scores']; `type` is "null" for an element that is
\* no object.
ScoreEntry(type, product, score, score_type, error_message) ==
  [type |-> type, product |-> product, score |-> score,
   score_type |-> score_type, error_message |-> error_message]

ScoreEntries ==
  { ScoreEntry("object", "a", "5", "2", "undefined"),
    ScoreEntry("object", "b", "undefined", "undefined", "x"),
    ScoreEntry("object", "a", "5", "1", "undefined"),
    ScoreEntry("object", "b", "0", "2", "x"),
    ScoreEntry("object", "a", "5", "undefined", "undefined"),
    ScoreEntry("null", "undefined", "undefined", "undefined", "undefined") }

\* response['header']: absent, or an object with its 'ok'.
Header(type, ok) == [type |-> type, ok |-> ok]
Headers ==
  { Header("undefined", "undefined"), Header("object", "true"),
    Header("object", "false"), Header("object", "undefined") }

\* response['scores']: absent, null, a number, or an array.
Scores(type, items) == [type |-> type, items |-> items]
RECURSIVE SeqsUpTo(_, _)
SeqsUpTo(S, n) ==
  IF n = 0 THEN {<<>>}
  ELSE LET shorter == SeqsUpTo(S, n - 1)
       IN shorter \cup {Append(q, x) : q \in shorter, x \in S}
ScoresValues ==
  { Scores("undefined", <<>>), Scores("null", <<>>), Scores("number", <<>>) }
    \cup { Scores("array", q) : q \in SeqsUpTo(ScoreEntries, MaxScores) }

\* The value response.json() resolves to: JSON null, or an object.
Response(type, header, scores, error) ==
  [type |-> type, header |-> header, scores |-> scores, error |-> error]
NullResponse ==
  Response("null", Header("undefined", "undefined"), Scores("undefined", <<>>),
           "undefined")
Responses ==
  {NullResponse} \cup
  { Response("object", h, sc, e) :
      h \in Headers, sc \in ScoresValues, e \in {"undefined", "e"} }

\* What a call gives: the value it returns, or a throw.
Return(value) == [threw |-> FALSE, value |-> value]
Throw == [threw |-> TRUE, value |-> <<>>]

\* One turn of the loop over scores with every score taken as bucketed.
ScoreDetail_AlwaysBucketed(result) ==
  IF Truthy(result.score)
  THEN [product |-> result.product,
        score |-> [value |-> result.score, bucketed |-> TRUE]]
  ELSE [product |-> result.product, error |-> result.error_message]

\* One turn of the loop over scores (lines 204-221): the scoreDetail pushed
\* for the element `result`.
ScoreDetail(result) ==
  IF Truthy(result.score)
  THEN [product |-> result.product,
        score |-> [value |-> result.score,
                   bucketed |-> result.score_type = "2"]]
  ELSE [product |-> result.product, error |-> result.error_message]

\* parsePropensityResponse_ that answers a missing header like a header
\* whose ok is false.
parsePropensityResponse_NoHeaderCase(response) ==
  IF response.type # "object" THEN Throw
  ELSE IF Truthy(response.header.ok)
    THEN IF response.scores.type \in {"undefined", "null"} THEN Throw
         ELSE IF \E i \in 1..Len(response.scores.items) :
                   response.scores.items[i].type # "object"
           THEN Throw
         ELSE Return([header |-> [ok |-> TRUE],
                      body |-> [scores |->
                        [i \in 1..Len(response.scores.items) |->
                           ScoreDetail(response.scores.items[i])]]])
  ELSE Return([header |-> [ok |-> FALSE], body |-> [error |-> response.error]])

\* parsePropensityResponse_(response).  Reading a property of null or
\* undefined throws a TypeError: response['header'] on a null response,
\* scores.length on absent scores, result['score'] on a null element.  A
\* number has no length, so the loop over it makes no turn.
parsePropensityResponse_(response) ==
  IF response.type # "object" THEN Throw
  ELSE IF response.header.type = "undefined"
    THEN Return([header |-> [ok |-> FALSE],
                 body |-> [error |-> "No valid response"]])
  ELSE IF Truthy(response.header.ok)
    THEN IF response.scores.type \in {"undefined", "null"} THEN Throw
         ELSE IF \E i \in 1..Len(response.scores.items) :
                   response.scores.items[i].type # "object"
           THEN Throw
         ELSE Return([header |-> [ok |-> TRUE],
                      body |-> [scores |->
                        [i \in 1..Len(response.scores.items) |->
                           ScoreDetail(response.scores.items[i])]]])
  ELSE Return([header |-> [ok |-> FALSE], body |-> [error |-> response.error]])

(***************************************************************************)
(* State                                                                   *)
(***************************************************************************)
VARIABLES
  listeners_,       \* ClientEventManager.listeners_: names, in push order
  filterers_,       \* ClientEventManager.filterers_: names, in push order
  lastAction_,      \* ClientEventManager.lastAction_: 0 for null, else the
                    \* index in `tasks` of the promise handleEvent_ returned
  isReadyPromise_,  \* "pending" or "resolved"
  tasks,            \* the activations of handleEvent_, in the order of the
                    \* logEvent calls: the event object, eventParams, the
                    \* position of the activation and its loop index
  running,          \* the activation that holds the thread (is between its
                    \* await and its return), 0 when none does
  enablePropensity, \* deps.config().enablePropensity
  propensityServer, \* TRUE once a PropensityServer has been constructed
  requests,         \* the requests handed to fetcher_.fetch, in order
  trace,            \* the invocations of filterers and listeners, in order
  lastCall,         \* the most recent call of the public interface and
                    \* whether it threw to its caller
  clientId_,        \* PropensityServer.clientId_: "null" or the client id
  cookie            \* win.document.cookie

vars ==
  <<listeners_, filterers_, lastAction_, isReadyPromise_, tasks, running,
    enablePropensity, propensityServer, requests, trace, lastCall,
    clientId_, cookie>>

\* The calls of logEvent the callers of the dispatch model make: a value that
\* is no event, an event forwarded as a generic event report (with
\* eventParams), and a subscription-state event.
SwgImpression ==
  ClientEvent("object", "IMPRESSION_PAYWALL", "SWG_CLIENT", EmptyObject, "true")
PublisherState ==
  ClientEvent("object", "EVENT_SUBSCRIPTION_STATE", "PUBLISHER_CLIENT", StateObject, "null")

LoggedCalls ==
  { <<NotAnObject, "undefined">>,
    <<SwgImpression, "eventParams">>,
    <<PublisherState, "undefined">> }

\* lastCall: what the most recent call of the public interface gave its
\* caller.  A call that returns leaves Returned; a call that throws leaves
\* its name and its argument; isPublisherEvent leaves its result.
Call(op, threw, event, fn, result) ==
  [op |-> op, threw |-> threw, event |-> event, fn |-> fn, result |-> result]

Returned == Call("return", FALSE, NotAnObject, NotAFunction, "undefined")
Threw(op, event, fn) == Call(op, TRUE, event, fn, "undefined")

Init ==
  /\ listeners_ = <<>>
  /\ filterers_ = <<>>
  /\ lastAction_ = 0
  /\ isReadyPromise_ = "pending"
  /\ tasks = <<>>
  /\ running = 0
  /\ enablePropensity = FALSE
  /\ propensityServer = FALSE
  /\ requests = <<>>
  /\ trace = <<>>
  /\ lastCall = Returned
  /\ clientId_ = "null"
  /\ cookie = GadsCookie

(***************************************************************************)
(* ClientEventManager: the public interface                                *)
(***************************************************************************)
\* registerEventListener(listener)
registerEventListener(listener) ==
  /\ IF ~isFunction(listener)
     THEN /\ lastCall' = Threw("registerEventListener", NotAnObject, listener)
          /\ UNCHANGED listeners_
     ELSE /\ Len(listeners_) < MaxListeners
          /\ listeners_' = Append(listeners_, listener.name)
          /\ lastCall' = Returned
  /\ UNCHANGED <<filterers_, lastAction_, isReadyPromise_, tasks, running,
                 enablePropensity, requests, trace,
                 clientId_, cookie>>

\* registerEventFilterer without the isFunction check.
registerEventFilterer_NoCheck(filterer) ==
  /\ Len(filterers_) < MaxFilterers
  /\ filterers_' = Append(filterers_, filterer.name)
  /\ lastCall' = Returned
  /\ UNCHANGED <<listeners_, lastAction_, isReadyPromise_, tasks, running,
                 enablePropensity, propensityServer, requests, trace,
                 clientId_, cookie>>

\* registerEventFilterer(filterer)
registerEventFilterer(filterer) ==
  /\ IF ~isFunction(filterer)
     THEN /\ lastCall' = Threw("registerEventFilterer", NotAnObject, filterer)
          /\ UNCHANGED filterers_
     ELSE /\ Len(filterers_) < MaxFilterers
          /\ filterers_' = Append(filterers_, filterer.name)
          /\ lastCall' = Returned
  /\ UNCHANGED <<listeners_, lastAction_, isReadyPromise_, tasks, running,
                 enablePropensity, propensityServer, requests, trace,
                 clientId_, cookie>>

RegisterListener ==
  /\ \E l \in {Callable(n) : n \in ListenerNames} \cup {NotAFunction} :
       registerEventListener(l)
  /\ UNCHANGED propensityServer

RegisterFilterer ==
  \E f \in {Callable(n) : n \in FiltererNames} \cup {NotAFunction} :
    registerEventFilterer(f)

\* new PropensityServer(win, deps, fetcher): registers its handleClientEvent_
\* with the event manager.
PropensityServerConstructor ==
  /\ ~propensityServer
  /\ propensityServer' = TRUE
  /\ registerEventListener(Callable("handleClientEvent_"))

\* The activation handleEvent_(event, eventParams) starts: it runs up to its
\* await and returns its promise.
NewTask(event, eventParams) ==
  [event |-> event, eventParams |-> eventParams, pc |-> "await", i |-> 0,
   cancelled |-> FALSE]

\* logEvent whose handleEvent_ does not wait when isReadyPromise_ has
\* resolved: the activation enters its filterer loop inside the call.
logEvent_NoAwait(event, eventParams) ==
  IF ~validateEvent(event)
  THEN /\ lastCall' = Threw("logEvent", event, NotAFunction)
       /\ UNCHANGED <<listeners_, filterers_, lastAction_, isReadyPromise_,
                      tasks, running, enablePropensity, propensityServer,
                      requests, trace, clientId_, cookie>>
  ELSE /\ IF isReadyPromise_ = "resolved" /\ running = 0
          THEN /\ tasks' = Append(tasks, [NewTask(event, eventParams)
                                            EXCEPT !.pc = "filter", !.i = 1])
               /\ running' = Len(tasks) + 1
          ELSE /\ tasks' = Append(tasks, NewTask(event, eventParams))
               /\ UNCHANGED running
       /\ lastAction_' = Len(tasks) + 1
       /\ lastCall' = Returned
       /\ UNCHANGED <<listeners_, filterers_, isReadyPromise_,
                      enablePropensity, propensityServer, requests, trace,
                      clientId_, cookie>>

\* logEvent(event, eventParams)
logEvent(event, eventParams) ==
  IF ~validateEvent(event)
  THEN /\ lastCall' = Threw("logEvent", event, NotAFunction)
       /\ UNCHANGED <<listeners_, filterers_, lastAction_, isReadyPromise_,
                      tasks, running, enablePropensity, propensityServer,
                      requests, trace,
                      clientId_, cookie>>
  ELSE /\ tasks' = Append(tasks, NewTask(event, eventParams))
       /\ lastAction_' = Len(tasks) + 1
       /\ lastCall' = Returned
       /\ UNCHANGED <<listeners_, filterers_, isReadyPromise_, running,
                      enablePropensity, propensityServer, requests, trace,
                      clientId_, cookie>>

LogEvent ==
  /\ Len(tasks) < MaxEvents
  /\ \E c \in LoggedCalls : logEvent(c[1], c[2])

(***************************************************************************)
(* The environment                                                         *)
(***************************************************************************)
\* configuredPromise resolves.
ResolveReady ==
  /\ isReadyPromise_ = "pending"
  /\ isReadyPromise_' = "resolved"
  /\ UNCHANGED <<listeners_, filterers_, lastAction_, tasks, running,
                 enablePropensity, propensityServer, requests, trace, lastCall,
                 clientId_, cookie>>

\* The publisher switches config().enablePropensity.
SetEnablePropensity ==
  /\ enablePropensity' = ~enablePropensity
  /\ UNCHANGED <<listeners_, filterers_, lastAction_, isReadyPromise_, tasks,
                 running, propensityServer, requests, trace, lastCall,
                 clientId_, cookie>>

(***************************************************************************)
(* ClientEventManager.handleEvent_                                         *)
(***************************************************************************)
Invocation(t, kind, pos, fn, event, eventParams, result) ==
  [task |-> t, kind |-> kind, pos |-> pos, fn |-> fn, event |-> event,
   eventParams |-> eventParams, result |-> result]

\* AwaitReady that does not wait for isReadyPromise_.
AwaitReady_NoGate(t) ==
  /\ running = 0
  /\ tasks[t].pc = "await"
  /\ \A u \in 1..(t - 1) : tasks[u].pc # "await"
  /\ tasks' = [tasks EXCEPT ![t].pc = "filter", ![t].i = 1]
  /\ running' = t
  /\ UNCHANGED <<listeners_, filterers_, lastAction_, isReadyPromise_,
                 enablePropensity, propensityServer, requests, trace, lastCall,
                 clientId_, cookie>>

\* `await this.isReadyPromise_` completes: the continuations of a promise
\* run one at a time, in the order in which they started to wait.
AwaitReady(t) ==
  /\ isReadyPromise_ = "resolved"
  /\ running = 0
  /\ tasks[t].pc = "await"
  /\ \A u \in 1..(t - 1) : tasks[u].pc # "await"
  /\ tasks' = [tasks EXCEPT ![t].pc = "filter", ![t].i = 1]
  /\ running' = t
  /\ UNCHANGED <<listeners_, filterers_, lastAction_, isReadyPromise_,
                 enablePropensity, propensityServer, requests, trace, lastCall,
                 clientId_, cookie>>

\* FilterStep whose CANCEL_EVENT does not return from handleEvent_.
FilterStep_NoReturn(t) ==
  /\ running = t
  /\ tasks[t].pc = "filter"
  /\ tasks[t].i <= Len(filterers_)
  /\ LET fn == filterers_[tasks[t].i]
         result == FiltererOutcome(fn, tasks[t].event)
     IN /\ trace' = Append(trace,
                      Invocation(t, "filterer", tasks[t].i, fn, tasks[t].event,
                                 "none", result))
        /\ tasks' = [tasks EXCEPT ![t].i = @ + 1]
        /\ UNCHANGED running
  /\ UNCHANGED <<listeners_, filterers_, lastAction_, isReadyPromise_,
                 enablePropensity, propensityServer, requests, lastCall,
                 clientId_, cookie>>

\* FilterStep without the try/catch: a filterer that throws ends
\* handleEvent_.
FilterStep_NoCatch(t) ==
  /\ running = t
  /\ tasks[t].pc = "filter"
  /\ tasks[t].i <= Len(filterers_)
  /\ LET fn == filterers_[tasks[t].i]
         result == FiltererOutcome(fn, tasks[t].event)
     IN /\ trace' = Append(trace,
                      Invocation(t, "filterer", tasks[t].i, fn, tasks[t].event,
                                 "none", result))
        /\ IF result = "CANCEL_EVENT"
           THEN /\ tasks' = [tasks EXCEPT ![t].pc = "done", ![t].cancelled = TRUE]
                /\ running' = 0
           ELSE IF result = "throw"
           THEN /\ tasks' = [tasks EXCEPT ![t].pc = "done"]
                /\ running' = 0
           ELSE /\ tasks' = [tasks EXCEPT ![t].i = @ + 1]
                /\ UNCHANGED running
  /\ UNCHANGED <<listeners_, filterers_, lastAction_, isReadyPromise_,
                 enablePropensity, propensityServer, requests, lastCall,
                 clientId_, cookie>>

\* One turn of `for (const filterer of this.filterers_)`: the loop reads the
\* array as it is now.
FilterStep(t) ==
  /\ running = t
  /\ tasks[t].pc = "filter"
  /\ tasks[t].i <= Len(filterers_)
  /\ LET fn == filterers_[tasks[t].i]
         result == FiltererOutcome(fn, tasks[t].event)
     IN /\ trace' = Append(trace,
                      Invocation(t, "filterer", tasks[t].i, fn, tasks[t].event,
                                 "none", result))
        /\ IF result = "CANCEL_EVENT"
           THEN /\ tasks' = [tasks EXCEPT ![t].pc = "done", ![t].cancelled = TRUE]
                /\ running' = 0
           ELSE /\ tasks' = [tasks EXCEPT ![t].i = @ + 1]
                /\ UNCHANGED running
  /\ UNCHANGED <<listeners_, filterers_, lastAction_, isReadyPromise_,
                 enablePropensity, propensityServer, requests, lastCall,
                 clientId_, cookie>>

\* The filterer loop ends without a cancel.
FilterersDone(t) ==
  /\ running = t
  /\ tasks[t].pc = "filter"
  /\ tasks[t].i > Len(filterers_)
  /\ tasks' = [tasks EXCEPT ![t].pc = "listen", ![t].i = 1]
  /\ UNCHANGED <<listeners_, filterers_, lastAction_, isReadyPromise_, running,
                 enablePropensity, propensityServer, requests, trace, lastCall,
                 clientId_, cookie>>

\* ListenStep that jumps over the listener after the one it invokes.
ListenStep_SkipNext(t) ==
  /\ running = t
  /\ tasks[t].pc = "listen"
  /\ tasks[t].i <= Len(listeners_)
  /\ LET fn == listeners_[tasks[t].i]
         out == ListenerOutcome(fn, tasks[t].event, enablePropensity)
     IN /\ trace' = Append(trace,
                      Invocation(t, "listener", tasks[t].i, fn, tasks[t].event,
                                 tasks[t].eventParams,
                                 IF out.threw THEN "throw" ELSE "return"))
        /\ requests' = requests \o Fetch(out.requests, clientId_, cookie)
        /\ clientId_' = IF out.requests = <<>> THEN clientId_
                        ELSE getClientId_(clientId_, cookie)
        /\ tasks' = [tasks EXCEPT ![t].event = out.event, ![t].i = @ + 2]
  /\ UNCHANGED <<listeners_, filterers_, lastAction_, isReadyPromise_, running,
                 enablePropensity, propensityServer, lastCall,
                 cookie>>

\* ListenStep without the try/catch: a listener that throws ends handleEvent_.
ListenStep_NoCatch(t) ==
  /\ running = t
  /\ tasks[t].pc = "listen"
  /\ tasks[t].i <= Len(listeners_)
  /\ LET fn == listeners_[tasks[t].i]
         out == ListenerOutcome(fn, tasks[t].event, enablePropensity)
     IN /\ trace' = Append(trace,
                      Invocation(t, "listener", tasks[t].i, fn, tasks[t].event,
                                 tasks[t].eventParams,
                                 IF out.threw THEN "throw" ELSE "return"))
        /\ requests' = requests \o Fetch(out.requests, clientId_, cookie)
        /\ clientId_' = IF out.requests = <<>> THEN clientId_
                        ELSE getClientId_(clientId_, cookie)
        /\ IF out.threw
           THEN /\ tasks' = [tasks EXCEPT ![t].event = out.event, ![t].pc = "done"]
                /\ running' = 0
           ELSE /\ tasks' = [tasks EXCEPT ![t].event = out.event, ![t].i = @ + 1]
                /\ UNCHANGED running
  /\ UNCHANGED <<listeners_, filterers_, lastAction_, isReadyPromise_,
                 enablePropensity, propensityServer, lastCall,
                 cookie>>

\* ListenStep that walks the registry from its end.
ListenStep_Reverse(t) ==
  /\ running = t
  /\ tasks[t].pc = "listen"
  /\ tasks[t].i <= Len(listeners_)
  /\ LET pos == Len(listeners_) + 1 - tasks[t].i
         fn == listeners_[pos]
         out == ListenerOutcome(fn, tasks[t].event, enablePropensity)
     IN /\ trace' = Append(trace,
                      Invocation(t, "listener", pos, fn, tasks[t].event,
                                 tasks[t].eventParams,
                                 IF out.threw THEN "throw" ELSE "return"))
        /\ requests' = requests \o Fetch(out.requests, clientId_, cookie)
        /\ clientId_' = IF out.requests = <<>> THEN clientId_
                        ELSE getClientId_(clientId_, cookie)
        /\ tasks' = [tasks EXCEPT ![t].event = out.event, ![t].i = @ + 1]
  /\ UNCHANGED <<listeners_, filterers_, lastAction_, isReadyPromise_, running,
                 enablePropensity, propensityServer, lastCall,
                 cookie>>

\* ListenStep that awaits the listener: the activation gives up the thread
\* after each listener and takes its next turn when the thread is free.
ListenStep_Awaited(t) ==
  /\ running \in {0, t}
  /\ tasks[t].pc = "listen"
  /\ tasks[t].i <= Len(listeners_)
  /\ LET fn == listeners_[tasks[t].i]
         out == ListenerOutcome(fn, tasks[t].event, enablePropensity)
     IN /\ trace' = Append(trace,
                      Invocation(t, "listener", tasks[t].i, fn, tasks[t].event,
                                 tasks[t].eventParams,
                                 IF out.threw THEN "throw" ELSE "return"))
        /\ requests' = requests \o Fetch(out.requests, clientId_, cookie)
        /\ clientId_' = IF out.requests = <<>> THEN clientId_
                        ELSE getClientId_(clientId_, cookie)
        /\ tasks' = [tasks EXCEPT ![t].event = out.event, ![t].i = @ + 1]
  /\ running' = 0
  /\ UNCHANGED <<listeners_, filterers_, lastAction_, isReadyPromise_,
                 enablePropensity, propensityServer, lastCall, cookie>>

\* One turn of `for (const listener of this.listeners_)`.
ListenStep(t) ==
  /\ running = t
  /\ tasks[t].pc = "listen"
  /\ tasks[t].i <= Len(listeners_)
  /\ LET fn == listeners_[tasks[t].i]
         out == ListenerOutcome(fn, tasks[t].event, enablePropensity)
     IN /\ trace' = Append(trace,
                      Invocation(t, "listener", tasks[t].i, fn, tasks[t].event,
                                 tasks[t].eventParams,
                                 IF out.threw THEN "throw" ELSE "return"))
        /\ requests' = requests \o Fetch(out.requests, clientId_, cookie)
        /\ clientId_' = IF out.requests = <<>> THEN clientId_
                        ELSE getClientId_(clientId_, cookie)
        /\ tasks' = [tasks EXCEPT ![t].event = out.event, ![t].i = @ + 1]
  /\ UNCHANGED <<listeners_, filterers_, lastAction_, isReadyPromise_, running,
                 enablePropensity, propensityServer, lastCall,
                 cookie>>

\* ListenersDone that keeps the thread: handleEvent_ returns but no other
\* continuation is ever run.
ListenersDone_KeepsThread(t) ==
  /\ running = t
  /\ tasks[t].pc = "listen"
  /\ tasks[t].i > Len(listeners_)
  /\ tasks' = [tasks EXCEPT ![t].pc = "done"]
  /\ UNCHANGED <<listeners_, filterers_, lastAction_, isReadyPromise_, running,
                 enablePropensity, propensityServer, requests, trace, lastCall,
                 clientId_, cookie>>

\* The listener loop ends: handleEvent_ returns.
ListenersDone(t) ==
  /\ running = t
  /\ tasks[t].pc = "listen"
  /\ tasks[t].i > Len(listeners_)
  /\ tasks' = [tasks EXCEPT ![t].pc = "done"]
  /\ running' = 0
  /\ UNCHANGED <<listeners_, filterers_, lastAction_, isReadyPromise_,
                 enablePropensity, propensityServer, requests, trace, lastCall,
                 clientId_, cookie>>

handleEvent_ ==
  \E t \in 1..Len(tasks) :
    \/ AwaitReady(t)
    \/ FilterStep(t)
    \/ FilterersDone(t)
    \/ ListenStep(t)
    \/ ListenersDone(t)

\* The manager is set up (a PropensityServer constructed, filterers and
\* listeners registered) before the first event is accepted; events are then
\* logged and dispatched.
SetUp == tasks = <<>>

Next ==
  \/ SetUp /\ RegisterListener
  \/ SetUp /\ RegisterFilterer
  \/ SetUp /\ PropensityServerConstructor
  \/ LogEvent
  \/ ResolveReady
  \/ SetEnablePropensity
  \/ handleEvent_

Spec == Init /\ [][Next]_vars

\* Dispatch on a manager that has been set up: a PropensityServer is
\* constructed, the registries hold filterers that throw, return and cancel
\* and listeners that throw and return, and events are logged before and
\* after the promise resolves.
InitFair ==
  /\ listeners_ \in {<<"handleClientEvent_">>, <<"lThrow", "handleClientEvent_">>,
                      <<"handleClientEvent_", "lReturn">>}
  /\ filterers_ \in {<<>>, <<"fThrow", "fProcess">>, <<"fThrow", "fCancel">>,
                      <<"fCancel", "fProcess">>}
  /\ lastAction_ = 0
  /\ isReadyPromise_ = "pending"
  /\ tasks = <<>>
  /\ running = 0
  /\ enablePropensity \in BOOLEAN
  /\ propensityServer = TRUE
  /\ requests = <<>>
  /\ trace = <<>>
  /\ lastCall = Returned
  /\ clientId_ = "null"
  /\ cookie = GadsCookie

NextFair ==
  \/ LogEvent
  \/ ResolveReady
  \/ handleEvent_

\* The job queue of the engine runs every continuation that is ready: a
\* step of handleEvent_ that stays enabled is eventually taken.
SpecFair == InitFair /\ [][NextFair]_vars /\ WF_vars(handleEvent_)

\* Registration goes on at any time, also from inside a filterer or a
\* listener that handleEvent_ has invoked, around the dispatch of one event.
LogOneEvent ==
  /\ tasks = <<>>
  /\ \E c \in LoggedCalls : logEvent(c[1], c[2])

NextLive ==
  \/ RegisterListener
  \/ RegisterFilterer
  \/ PropensityServerConstructor
  \/ LogOneEvent
  \/ ResolveReady
  \/ SetEnablePropensity
  \/ handleEvent_

SpecLive == Init /\ [][NextLive]_vars

(***************************************************************************)
(* One call on any event.  The manager has one filterer and a              *)
(* PropensityServer registered; the caller holds an event of ClientEvents  *)
(* (lastCall.op = "input") and passes it to logEvent or isPublisherEvent.  *)
(***************************************************************************)
Input(event) == Call("input", FALSE, event, NotAFunction, "undefined")

InitInput ==
  /\ listeners_ = <<"handleClientEvent_">>
  /\ filterers_ = <<"fProcess">>
  /\ lastAction_ = 0
  /\ isReadyPromise_ = "pending"
  /\ tasks = <<>>
  /\ running = 0
  /\ enablePropensity \in BOOLEAN
  /\ propensityServer = TRUE
  /\ requests = <<>>
  /\ trace = <<>>
  /\ lastCall \in {Input(e) : e \in ClientEvents}
  /\ clientId_ = "null"
  /\ cookie = GadsCookie

LogInput ==
  /\ lastCall.op = "input"
  /\ logEvent(lastCall.event, "eventParams")

\* ClientEventManager.isPublisherEvent(event), a static method.
IsPublisherEvent ==
  /\ lastCall.op = "input"
  /\ isObject(lastCall.event)
  /\ lastCall' = Call("isPublisherEvent", FALSE, lastCall.event, NotAFunction,
                      IF isPublisherEvent(lastCall.event) THEN "true" ELSE "false")
  /\ UNCHANGED <<listeners_, filterers_, lastAction_, isReadyPromise_, tasks,
                 running, enablePropensity, propensityServer, requests, trace,
                 clientId_, cookie>>

NextInput ==
  \/ LogInput
  \/ IsPublisherEvent
  \/ ResolveReady
  \/ SetEnablePropensity
  \/ handleEvent_

SpecInput == InitInput /\ [][NextInput]_vars

(***************************************************************************)
(* PropensityServer: the calls its owner makes directly                    *)
(***************************************************************************)
\* lastCall for getPropensity: its promise is pending, fulfilled with a
\* result, or rejected; `response` is what response.json() gave.
ScoreCall(state, response, result) ==
  [op |-> "getPropensity", state |-> state, response |-> response,
   result |-> result]

\* The url getPropensity builds (lines 248-254) and the one
\* sendSubscriptionState builds for a call of the owner.
ptsUrl == [kind |-> "pts", value |-> "type", extrainfo |-> Undefined,
           event |-> NotAnObject]
statesUrl == sendSubscriptionState("s", "p", NotAnObject)

\* getPropensity(referrer, type) up to its first await: the request is
\* fetched and the promise returned.
getPropensity ==
  /\ requests' = requests \o Fetch(<<ptsUrl>>, clientId_, cookie)
  /\ clientId_' = getClientId_(clientId_, cookie)
  /\ lastCall' = ScoreCall("pending", NullResponse, <<>>)
  /\ UNCHANGED <<listeners_, filterers_, lastAction_, isReadyPromise_, tasks,
                 running, enablePropensity, propensityServer, trace, cookie>>

\* The fetch and response.json() settle with the value `response`:
\* getPropensity returns what parsePropensityResponse_ returns, and its
\* promise rejects when that throws.
FetchResponds ==
  /\ lastCall.op = "getPropensity"
  /\ lastCall.state = "pending"
  /\ \E response \in Responses :
       LET out == parsePropensityResponse_(response) IN
         lastCall' = IF out.threw
                     THEN ScoreCall("rejected", response, <<>>)
                     ELSE ScoreCall("fulfilled", response, out.value)
  /\ UNCHANGED <<listeners_, filterers_, lastAction_, isReadyPromise_, tasks,
                 running, enablePropensity, propensityServer, requests, trace,
                 clientId_, cookie>>

\* The state after `new PropensityServer(win, deps, fetcher)`.
InitServer ==
  /\ listeners_ = <<"handleClientEvent_">>
  /\ filterers_ = <<>>
  /\ lastAction_ = 0
  /\ isReadyPromise_ = "pending"
  /\ tasks = <<>>
  /\ running = 0
  /\ enablePropensity = FALSE
  /\ propensityServer = TRUE
  /\ requests = <<>>
  /\ trace = <<>>
  /\ lastCall = Returned
  /\ clientId_ = "null"
  /\ cookie \in Cookies

\* One score query and the response it gets.
GetPropensityOnce ==
  /\ requests = <<>>
  /\ getPropensity

NextScores ==
  \/ GetPropensityOnce
  \/ FetchResponds

SpecScores == InitServer /\ [][NextScores]_vars

\* The owner calls sendSubscriptionState(state, productsOrSkus).
SendSubscriptionState ==
  /\ Len(requests) < MaxRequests
  /\ requests' = requests \o Fetch(<<statesUrl>>, clientId_, cookie)
  /\ clientId_' = getClientId_(clientId_, cookie)
  /\ lastCall' = Returned
  /\ UNCHANGED <<listeners_, filterers_, lastAction_, isReadyPromise_, tasks,
                 running, enablePropensity, propensityServer, trace, cookie>>

\* The owner calls getPropensity(referrer, type).
GetPropensity ==
  /\ Len(requests) < MaxRequests
  /\ getPropensity

\* The page's cookies change: the Ads Tag drops or replaces __gads, or it
\* is cleared.
SetCookie ==
  /\ \E c \in Cookies \ {cookie} : cookie' = c
  /\ UNCHANGED <<listeners_, filterers_, lastAction_, isReadyPromise_, tasks,
                 running, enablePropensity, propensityServer, requests, trace,
                 lastCall, clientId_>>

\* Requests of the owner while the cookies of the page change.
NextClientId ==
  \/ SendSubscriptionState
  \/ GetPropensity
  \/ SetCookie

SpecClientId == InitServer /\ [][NextClientId]_vars

(***************************************************************************)
(* Properties                                                              *)
(***************************************************************************)
\* The invalid events, as the specification lists them.
InvalidEvent(e) ==
  \/ e.type # "object"
  \/ e.eventType \notin AnalyticsEvent
  \/ e.eventOriginator \notin EventOriginator
  \/ e.additionalParameters.type \notin {"object", "EventParams", "null"}
  \/ e.isFromUserAction \notin {"true", "false", "null"}

\* The invocations of the trace that belong to activation t, in order.
InvocationsOf(tr, t) == SelectSeq(tr, LAMBDA e : e.task = t)
ListenerCalls(tr, t) ==
  SelectSeq(tr, LAMBDA e : e.task = t /\ e.kind = "listener")
FiltererCalls(tr, t) ==
  SelectSeq(tr, LAMBDA e : e.task = t /\ e.kind = "filterer")

\* C1: logEvent throws to its caller for every invalid event and only then;
\* the call that threw scheduled no activation of handleEvent_ (lastAction_
\* stays null), and no filterer, listener or request ever sees an invalid
\* event; a call that returned scheduled one activation.
C1_InvalidEventRejected ==
  /\ \A t \in 1..Len(tasks) : ~InvalidEvent(tasks[t].event)
  /\ \A k \in 1..Len(trace) : ~InvalidEvent(trace[k].event)
  /\ \A k \in 1..Len(requests) : ~InvalidEvent(requests[k].event)
  /\ lastCall.op = "logEvent" =>
       /\ lastCall.threw
       /\ InvalidEvent(lastCall.event)
       /\ tasks = <<>> /\ trace = <<>> /\ lastAction_ = 0
  /\ lastCall = Returned => Len(tasks) = 1 /\ lastAction_ = 1

\* C1 witness: logEvent threw on an event whose only defect is a non-boolean
\* isFromUserAction, and readiness has resolved since.
C1_Witness ==
  /\ lastCall.op = "logEvent" /\ lastCall.threw
  /\ lastCall.event.isFromUserAction = "string"
  /\ lastCall.event.eventType \in AnalyticsEvent
  /\ lastCall.event.eventOriginator \in EventOriginator
  /\ lastCall.event.additionalParameters.type = "object"
  /\ isReadyPromise_ = "resolved"

\* C2: once a filterer has returned CANCEL_EVENT for an event, no listener is
\* invoked for that event and no filterer at a later position of the
\* registry is.
C2_CancelStopsDispatch ==
  \A k \in 1..Len(trace) :
    (trace[k].kind = "filterer" /\ trace[k].result = "CANCEL_EVENT") =>
      \A j \in 1..Len(trace) :
        trace[j].task = trace[k].task =>
          /\ trace[j].kind = "filterer"
          /\ trace[j].pos <= trace[k].pos

\* C2 witness: an activation ended on the CANCEL_EVENT of the first of two
\* filterers, with listeners registered.
C2_Witness ==
  \E t \in 1..Len(tasks) :
    /\ tasks[t].pc = "done" /\ tasks[t].cancelled
    /\ Len(filterers_) = 2 /\ filterers_[1] = "fCancel"
    /\ Len(listeners_) >= 1
    /\ Len(InvocationsOf(trace, t)) = 1

\* Activation t returns in this step.
Completes(t) == tasks[t].pc # "done" /\ tasks'[t].pc = "done"

\* Two snapshots of the same event object: a listener may have added
\* is_active to its additionalParameters in between.
SameEvent(a, b) ==
  /\ a.eventType = b.eventType
  /\ a.eventOriginator = b.eventOriginator
  /\ a.isFromUserAction = b.isFromUserAction
  /\ a.additionalParameters.type = b.additionalParameters.type

C3_NeverTwice ==
  \A j, k \in 1..Len(trace) :
    (/\ j < k
     /\ trace[j].task = trace[k].task
     /\ trace[j].kind = "listener" /\ trace[k].kind = "listener")
    => trace[j].pos # trace[k].pos

C3_AllWhenReturning ==
  \A t \in 1..Len(tasks) :
    (Completes(t) /\ ~tasks'[t].cancelled) =>
      LET calls == ListenerCalls(trace', t) IN
        /\ Len(calls) = Len(listeners_')
        /\ \A i \in 1..Len(calls) :
             /\ calls[i].pos = i
             /\ calls[i].fn = listeners_'[i]
             /\ calls[i].eventParams = tasks[t].eventParams
             /\ SameEvent(calls[i].event, tasks[t].event)

\* C3: when the activation of an accepted event returns without a
\* CANCEL_EVENT, its listener invocations are the entries of listeners_ as
\* the registry then stands, one invocation per entry, each with the event
\* and the eventParams of the logEvent call; and no entry is ever invoked a
\* second time for that call.
C3_EachListenerOnce == [](C3_NeverTwice) /\ [][C3_AllWhenReturning]_vars

\* C3 witness: an activation has returned without a cancel after invoking
\* two listeners, with a filterer registered.
C3_Witness ==
  \E t \in 1..Len(tasks) :
    /\ tasks[t].pc = "done" /\ ~tasks[t].cancelled
    /\ Len(ListenerCalls(trace, t)) = 2
    /\ Len(FiltererCalls(trace, t)) >= 1

C4_LaterListenersRun ==
  \A t \in 1..Len(tasks) :
    Completes(t) =>
      \A k \in 1..Len(trace') :
        (/\ trace'[k].task = t
         /\ trace'[k].kind = "listener"
         /\ trace'[k].result = "throw")
        => \A pos \in (trace'[k].pos + 1)..Len(listeners_') :
             \E j \in (k + 1)..Len(trace') :
               /\ trace'[j].task = t
               /\ trace'[j].kind = "listener"
               /\ trace'[j].pos = pos

C4_NotSurfaced ==
  /\ trace' # trace => lastCall' = lastCall
  /\ lastCall'.op = "logEvent" => InvalidEvent(lastCall'.event)

\* C4: when an activation returns, every listener at a position after one
\* that threw has been invoked for the same event; an invocation never
\* changes what a caller of the interface got, and logEvent throws to its
\* caller only for an invalid event.
C4_ListenerFaultIsolated ==
  [][C4_LaterListenersRun /\ C4_NotSurfaced]_vars

\* C4 witness: the first listener threw, the second was invoked after it, and
\* the activation returned.
C4_Witness ==
  \E t \in 1..Len(tasks) :
    /\ tasks[t].pc = "done"
    /\ LET calls == ListenerCalls(trace, t) IN
         /\ Len(calls) = 2
         /\ calls[1].result = "throw"
         /\ calls[2].pos = 2
    /\ lastCall = Returned

\* C5: among the invocations of one activation no listener invocation comes
\* before a filterer invocation, invocations of the same kind come in
\* increasing position of the registry, and the function invoked is the
\* entry of the registry at that position.
C5_DispatchOrder ==
  /\ \A j, k \in 1..Len(trace) :
       (j < k /\ trace[j].task = trace[k].task) =>
         /\ trace[j].kind = "listener" => trace[k].kind = "listener"
         /\ trace[j].kind = trace[k].kind => trace[j].pos < trace[k].pos
  /\ \A k \in 1..Len(trace) :
       IF trace[k].kind = "filterer"
       THEN trace[k].pos <= Len(filterers_) /\ trace[k].fn = filterers_[trace[k].pos]
       ELSE trace[k].pos <= Len(listeners_) /\ trace[k].fn = listeners_[trace[k].pos]

\* C5 witness: an activation has invoked two filterers and then two listeners.
C5_Witness ==
  \E t \in 1..Len(tasks) :
    /\ Len(FiltererCalls(trace, t)) = 2
    /\ Len(ListenerCalls(trace, t)) = 2
    /\ tasks[t].pc = "done"

\* C6: while isReadyPromise_ is pending no filterer or listener has been
\* invoked and no request issued, however many activations wait; once it is
\* resolved and an activation still waits, a step of handleEvent_ is enabled.
C6_ReadinessGate ==
  /\ isReadyPromise_ = "pending" =>
       /\ trace = <<>>
       /\ requests = <<>>
       /\ \A t \in 1..Len(tasks) : tasks[t].pc = "await"
  /\ (isReadyPromise_ = "resolved" /\ \E t \in 1..Len(tasks) : tasks[t].pc = "await")
       => ENABLED handleEvent_

\* C6 witness: two accepted events wait on the pending promise, with a
\* filterer and a listener registered.
C6_Witness ==
  /\ isReadyPromise_ = "pending"
  /\ Len(tasks) = 2
  /\ Len(filterers_) >= 1 /\ Len(listeners_) >= 1

C7_NonCallableRejected ==
  (/\ lastCall' # lastCall
   /\ lastCall'.op \in {"registerEventListener", "registerEventFilterer"})
  => /\ lastCall'.threw
     /\ ~isFunction(lastCall'.fn)
     /\ UNCHANGED <<listeners_, filterers_>>

C7_AppendOnly ==
  /\ listeners_' # listeners_ =>
       /\ \E n \in ListenerNames \cup {"handleClientEvent_"} :
            listeners_' = Append(listeners_, n)
       /\ filterers_' = filterers_
       /\ lastCall' = Returned
  /\ filterers_' # filterers_ =>
       /\ \E n \in FiltererNames : filterers_' = Append(filterers_, n)
       /\ listeners_' = listeners_
       /\ lastCall' = Returned

\* C7: a register call that throws was given a non-callable and leaves both
\* registries as they were; a registry changes only by a call that returns
\* and appends one callable at its end, the other registry unchanged.
C7_Registration == [][C7_NonCallableRejected /\ C7_AppendOnly]_vars

\* C7 witness: registerEventFilterer has just thrown on a non-callable with
\* entries in both registries.
C7_Witness ==
  /\ lastCall = Threw("registerEventFilterer", NotAnObject, NotAFunction)
  /\ Len(filterers_) = 2
  /\ Len(listeners_) >= 1

\* C8: isPublisherEvent(event) is true exactly for the originators
\* PROPENSITY_CLIENT, PUBLISHER_CLIENT and AMP_CLIENT.
C8_IsPublisherEvent ==
  lastCall.op = "isPublisherEvent" =>
    (lastCall.result = "true" <=>
       lastCall.event.eventOriginator \in
         {"PROPENSITY_CLIENT", "PUBLISHER_CLIENT", "AMP_CLIENT"})

\* C8 witness: isPublisherEvent returned true for AMP_CLIENT.
C8_Witness ==
  /\ lastCall.op = "isPublisherEvent"
  /\ lastCall.event.eventOriginator = "AMP_CLIENT"
  /\ lastCall.result = "true"

\* C9: no request handed to the fetcher was issued for an event whose
\* originator is SHOWCASE_CLIENT.
C9_ShowcaseNeverForwarded ==
  \A k \in 1..Len(requests) :
    requests[k].event.eventOriginator # "SHOWCASE_CLIENT"

\* C9 witness: handleClientEvent_ has been invoked with a SHOWCASE_CLIENT
\* event of a type that has a publisher equivalent, the activation has
\* returned, and enablePropensity is on.
C9_Witness ==
  /\ enablePropensity
  /\ \E k \in 1..Len(trace) :
       /\ trace[k].fn = "handleClientEvent_"
       /\ trace[k].event.eventOriginator = "SHOWCASE_CLIENT"
       /\ trace[k].event.eventType = "IMPRESSION_PAYWALL"
       /\ tasks[trace[k].task].pc = "done"

\* This step invokes handleClientEvent_ with a PROPENSITY_CLIENT event while
\* enablePropensity is off.
PropensityEventHandledFlagOff ==
  /\ Len(trace') = Len(trace) + 1
  /\ trace'[Len(trace')].fn = "handleClientEvent_"
  /\ trace'[Len(trace')].event.eventOriginator = "PROPENSITY_CLIENT"
  /\ ~enablePropensity

\* C10 as claimed: every PROPENSITY_CLIENT event handled while
\* enablePropensity is off makes the Propensity Server issue a request.
C10_PropensityAlwaysForwarded ==
  [][PropensityEventHandledFlagOff => Len(requests') = Len(requests) + 1]_vars

\* The events handleClientEvent_ turns into a request once they are past its
\* gates.
HasRequest(event) ==
  IF event.eventType = "EVENT_SUBSCRIPTION_STATE"
  THEN event.additionalParameters.type \in {"object", "EventParams"}
  ELSE analyticsEventToPublisherEvent(event.eventType) # "null"

\* C10 amended: a PROPENSITY_CLIENT event handled while enablePropensity is off
\* is past the flag gate: a request is issued for it exactly when it is a
\* subscription-state event whose additionalParameters is an object or its
\* type has a publisher equivalent, and never more than one.
C10_PropensityBypassesFlag ==
  [][PropensityEventHandledFlagOff =>
       LET event == trace'[Len(trace')].event IN
         IF HasRequest(event)
         THEN /\ Len(requests') = Len(requests) + 1
              /\ requests'[Len(requests')].event = event
         ELSE requests' = requests]_vars

\* C10 witness: with enablePropensity off, a request stands issued for a
\* PROPENSITY_CLIENT event whose activation is still in its listener loop.
C10_Witness ==
  /\ ~enablePropensity
  /\ Len(requests) = 1
  /\ requests[1].event.eventOriginator = "PROPENSITY_CLIENT"
  /\ requests[1].kind = "events"
  /\ running = 1

\* This step invokes handleClientEvent_ with an event whose originator is
\* neither SHOWCASE_CLIENT nor PROPENSITY_CLIENT.
OtherEventHandled ==
  /\ Len(trace') = Len(trace) + 1
  /\ trace'[Len(trace')].fn = "handleClientEvent_"
  /\ trace'[Len(trace')].event.eventOriginator \notin
       {"SHOWCASE_CLIENT", "PROPENSITY_CLIENT"}

\* C11: when handleClientEvent_ is invoked with an event that comes neither
\* from SHOWCASE_CLIENT nor from PROPENSITY_CLIENT, it issues no request if
\* enablePropensity is off in the state in which it runs, whatever the flag
\* was before; if the flag is on in that state, it issues the request of the
\* event.
C11_FlagReadLive ==
  [][OtherEventHandled =>
       IF enablePropensity /\ HasRequest(trace'[Len(trace')].event)
       THEN Len(requests') = Len(requests) + 1
       ELSE requests' = requests]_vars

\* C11 witness: handleClientEvent_ ran for a SWG_CLIENT paywall impression
\* and issued nothing, the activation has returned, and enablePropensity is
\* on by now: the flag was off when the listener ran and differs since.
C11_Witness ==
  /\ enablePropensity
  /\ requests = <<>>
  /\ \E k \in 1..Len(trace) :
       /\ trace[k].fn = "handleClientEvent_"
       /\ trace[k].event.eventOriginator = "SWG_CLIENT"
       /\ trace[k].event.eventType = "IMPRESSION_PAYWALL"
       /\ tasks[trace[k].task].pc = "done"

\* This step invokes handleClientEvent_ with an EVENT_SUBSCRIPTION_STATE event
\* that passes both gates and carries the parameters {state, productsOrSkus}.
StateEventHandled ==
  /\ Len(trace') = Len(trace) + 1
  /\ trace'[Len(trace')].fn = "handleClientEvent_"
  /\ LET event == trace'[Len(trace')].event IN
       /\ event.eventType = "EVENT_SUBSCRIPTION_STATE"
       /\ event.eventOriginator # "SHOWCASE_CLIENT"
       /\ enablePropensity \/ event.eventOriginator = "PROPENSITY_CLIENT"
       /\ event.additionalParameters = StateObject

\* C12: an EVENT_SUBSCRIPTION_STATE event that passes the gates and carries
\* {state, productsOrSkus} adds exactly one request, a subscription-state
\* report of that state and those products, and no generic event report.
C12_StateEventReportedOnce ==
  [][StateEventHandled =>
       /\ Len(requests') = Len(requests) + 1
       /\ SubSeq(requests', 1, Len(requests)) = requests
       /\ LET r == requests'[Len(requests')] IN
            /\ r.kind = "states"
            /\ r.value = StateObject.state
            /\ r.extrainfo.productsOrSkus = StateObject.productsOrSkus
            /\ r.event = trace'[Len(trace')].event]_vars

\* C12 witness: with enablePropensity on, the activation of a PUBLISHER_CLIENT
\* subscription-state event has returned and the one request issued is its
\* subscription-state report.
C12_Witness ==
  /\ enablePropensity
  /\ Len(tasks) = 1 /\ tasks[1].pc = "done"
  /\ tasks[1].event.eventType = "EVENT_SUBSCRIPTION_STATE"
  /\ tasks[1].event.eventOriginator = "PUBLISHER_CLIENT"
  /\ Len(requests) = 1
  /\ requests[1].kind = "states"
  /\ requests[1].value = "s"

\* getPropensity has settled on the response `lastCall.response`.
ScoreQuerySettled ==
  /\ lastCall.op = "getPropensity"
  /\ lastCall.state # "pending"

\* The malformed and absent scoring responses: no response object, no
\* header, or a header with ok true whose scores is missing, is no sequence
\* or holds an element that is no object.
Malformed(response) ==
  \/ response.type # "object"
  \/ response.header.type = "undefined"
  \/ /\ Truthy(response.header.ok)
     /\ \/ response.scores.type # "array"
        \/ \E i \in 1..Len(response.scores.items) :
             response.scores.items[i].type # "object"

\* C13 as claimed: for every malformed or absent scoring response
\* getPropensity fulfils its promise with a result whose header.ok is false
\* and whose body carries an error; it never rejects.
C13_MalformedGivesErrorResult ==
  (ScoreQuerySettled /\ Malformed(lastCall.response)) =>
    /\ lastCall.state = "fulfilled"
    /\ lastCall.result.header.ok = FALSE
    /\ "error" \in DOMAIN lastCall.result.body

\* A response with header.ok true and a scores array of objects.
OkResponse(response) ==
  /\ response.type = "object"
  /\ response.header.type = "object"
  /\ response.header.ok = "true"
  /\ response.scores.type = "array"
  /\ \A i \in 1..Len(response.scores.items) :
       response.scores.items[i].type = "object"

\* C14: for a response with header.ok true and a scores array (of objects)
\* the result is {header: {ok: true}, body: {scores}} with one entry per
\* input element, in the input's order: {product, score: {value, bucketed}}
\* when the element's score is truthy, bucketed being true exactly when
\* score_type is 2, and {product, error: error_message} otherwise.
C14_ScoresParsed ==
  (ScoreQuerySettled /\ OkResponse(lastCall.response)) =>
    /\ lastCall.state = "fulfilled"
    /\ lastCall.result.header = [ok |-> TRUE]
    /\ DOMAIN lastCall.result.body = {"scores"}
    /\ LET in == lastCall.response.scores.items
           out == lastCall.result.body.scores
       IN /\ Len(out) = Len(in)
          /\ \A i \in 1..Len(in) :
               /\ out[i].product = in[i].product
               /\ IF in[i].score \notin {"undefined", "0"}
                  THEN /\ DOMAIN out[i] = {"product", "score"}
                       /\ DOMAIN out[i].score = {"value", "bucketed"}
                       /\ out[i].score.value = in[i].score
                       /\ out[i].score.bucketed <=> in[i].score_type = "2"
                  ELSE /\ DOMAIN out[i] = {"product", "error"}
                       /\ out[i].error = in[i].error_message

\* C14 witness: the response {header: {ok: true}, scores: [{product: 'a',
\* score: 5, score_type: 2}, {product: 'b', error_message: 'x'}]} parsed
\* to {header: {ok: true}, body: {scores: [{product: 'a', score: {value: 5,
\* bucketed: true}}, {product: 'b', error: 'x'}]}}.
C14_Witness ==
  /\ lastCall.op = "getPropensity"
  /\ lastCall.state = "fulfilled"
  /\ lastCall.response.header.ok = "true"
  /\ lastCall.response.scores =
       Scores("array", <<ScoreEntry("object", "a", "5", "2", "undefined"),
                         ScoreEntry("object", "b", "undefined", "undefined", "x")>>)
  /\ lastCall.result =
       [header |-> [ok |-> TRUE],
        body |-> [scores |->
          <<[product |-> "a", score |-> [value |-> "5", bucketed |-> TRUE]],
            [product |-> "b", error |-> "x"]>>]]

\* C15: a response object with no header parses to {header: {ok: false},
\* body: {error: 'No valid response'}}; one whose header has a falsy ok
\* parses to {header: {ok: false}, body: {error: response.error}}; and in
\* every result the body has the key scores exactly when header.ok is true
\* and the key error exactly when it is false.
C15_ErrorResults ==
  /\ (/\ ScoreQuerySettled
      /\ lastCall.response.type = "object"
      /\ lastCall.response.header.type = "undefined")
     => /\ lastCall.state = "fulfilled"
        /\ lastCall.result = [header |-> [ok |-> FALSE],
                              body |-> [error |-> "No valid response"]]
  /\ (/\ ScoreQuerySettled
      /\ lastCall.response.type = "object"
      /\ lastCall.response.header.type = "object"
      /\ lastCall.response.header.ok \in {"false", "undefined"})
     => /\ lastCall.state = "fulfilled"
        /\ lastCall.result = [header |-> [ok |-> FALSE],
                              body |-> [error |-> lastCall.response.error]]
  /\ (lastCall.op = "getPropensity" /\ lastCall.state = "fulfilled")
     => /\ "scores" \in DOMAIN lastCall.result.body <=> lastCall.result.header.ok
        /\ "error" \in DOMAIN lastCall.result.body <=> ~lastCall.result.header.ok

\* C15 witness: a response without header, with an error and a scores array
\* of its own, parsed to the 'No valid response' result.
C15_Witness ==
  /\ lastCall.op = "getPropensity"
  /\ lastCall.state = "fulfilled"
  /\ lastCall.response.header.type = "undefined"
  /\ lastCall.response.error = "e"
  /\ lastCall.response.scores.type = "array"
  /\ lastCall.result.body.error = "No valid response"

\* C16 as claimed: the client id is derived from the cookie by the first
\* request and only read afterwards: once a request has been issued,
\* clientId_ never changes, and every later request carries the cookie
\* parameter of the first, whatever the cookies of the page have become.
C16_ClientIdDerivedOnce ==
  [][requests # <<>> =>
       /\ clientId_' = clientId_
       /\ \A k \in 1..Len(requests') :
            requests'[k].cookie = requests'[1].cookie]_vars

\* C17: when an activation returns, every filterer that threw for it was
\* followed by the filterer at the next position of the registry, if there
\* is one; and if no filterer returned CANCEL_EVENT for it, every filterer
\* and every listener has been invoked for it, in the order of the
\* registries, whether or not a filterer threw.
C17_FiltererFaultIsProceed ==
  [][\A t \in 1..Len(tasks) :
       Completes(t) =>
         LET fc == FiltererCalls(trace', t)
             lc == ListenerCalls(trace', t)
         IN /\ \A i \in 1..Len(fc) :
                 /\ fc[i].pos = i
                 /\ (fc[i].result = "throw" /\ i < Len(filterers_'))
                      => (i < Len(fc) /\ fc[i + 1].fn = filterers_'[i + 1])
            /\ (\A i \in 1..Len(fc) : fc[i].result # "CANCEL_EVENT")
                 => /\ ~tasks'[t].cancelled
                    /\ Len(fc) = Len(filterers_')
                    /\ Len(lc) = Len(listeners_')
                    /\ \A i \in 1..Len(lc) : lc[i].fn = listeners_'[i]]_vars

\* C17 witness: the first of two filterers threw, the second was invoked
\* after it, no filterer cancelled, and the activation returned after
\* invoking its listeners.
C17_Witness ==
  \E t \in 1..Len(tasks) :
    /\ tasks[t].pc = "done" /\ ~tasks[t].cancelled
    /\ LET fc == FiltererCalls(trace, t) IN
         /\ Len(fc) = 2
         /\ fc[1].result = "throw"
         /\ fc[2].result = "PROCESS_EVENT"
    /\ Len(ListenerCalls(trace, t)) >= 1

\* C18 as claimed: handleClientEvent_ leaves the event's own
\* additionalParameters as it was: every filterer and listener invoked for
\* an event is handed the same additionalParameters, those of the logEvent
\* call, also the listeners that come after handleClientEvent_.
C18_ParametersUnchanged ==
  \A j, k \in 1..Len(trace) :
    (j < k /\ trace[j].task = trace[k].task) =>
      trace[k].event.additionalParameters = trace[j].event.additionalParameters

\* Activation t has run to completion: it has returned, and either a
\* filterer returned CANCEL_EVENT for it or every registered listener has
\* been invoked for it.
Completed(t) ==
  /\ Len(tasks) >= t
  /\ tasks[t].pc = "done"
  /\ IF tasks[t].cancelled
     THEN \E k \in 1..Len(trace) :
            /\ trace[k].task = t
            /\ trace[k].kind = "filterer"
            /\ trace[k].result = "CANCEL_EVENT"
     ELSE Len(ListenerCalls(trace, t)) = Len(listeners_)

\* C19: once isReadyPromise_ has resolved, the activation of every event
\* logEvent accepted eventually returns, after a CANCEL_EVENT of a filterer
\* or after every registered listener has been invoked for it.
C19_DispatchCompletes ==
  \A t \in 1..MaxEvents :
    (isReadyPromise_ = "resolved" /\ Len(tasks) >= t) ~> Completed(t)

\* C19 witness: two accepted events have both run to completion after the
\* promise resolved, the first cancelled by the second of two filterers,
\* with a listener registered.
C19_Witness ==
  /\ isReadyPromise_ = "resolved"
  /\ Len(tasks) = 2
  /\ Completed(1) /\ Completed(2)
  /\ tasks[1].cancelled
  /\ Len(FiltererCalls(trace, 1)) = 2
  /\ Len(listeners_) >= 1

\* A consumer invocation for one event lies between two consumer
\* invocations for another event.
Interleaved ==
  \E i, j, k \in 1..Len(trace) :
    /\ i < j /\ j < k
    /\ trace[i].task = trace[k].task
    /\ trace[j].task # trace[i].task

\* Two accepted events wait on the resolved promise, neither dispatched yet,
\* with two listeners registered and no filterer that cancels: each event
\* has two or more consumer invocations ahead.
BothReady ==
  /\ isReadyPromise_ = "resolved"
  /\ Len(tasks) = 2
  /\ tasks[1].pc = "await" /\ tasks[2].pc = "await"
  /\ Len(listeners_) >= 2
  /\ \A i \in 1..Len(filterers_) : filterers_[i] # "fCancel"

LogEventOnlySchedules ==
  Len(tasks') = Len(tasks) + 1 =>
    /\ trace' = trace
    /\ requests' = requests
    /\ running' = running
    /\ tasks'[Len(tasks')].pc = "await"

\* Every invocation is of the entry the registry holds at that position
\* when the invocation is made.
InvokesCurrentEntry ==
  Len(trace') = Len(trace) + 1 =>
    LET call == trace'[Len(trace')] IN
      IF call.kind = "filterer"
      THEN call.pos <= Len(filterers_) /\ call.fn = filterers_[call.pos]
      ELSE call.pos <= Len(listeners_) /\ call.fn = listeners_[call.pos]

\* A loop ends only when it has gone through the registry as it stands at
\* that step, whatever was registered since logEvent.
LoopsEndAtCurrentLength ==
  \A t \in 1..Len(tasks) :
    /\ (tasks[t].pc = "filter" /\ tasks'[t].pc = "listen")
         => Len(FiltererCalls(trace', t)) = Len(filterers_')
    /\ (Completes(t) /\ ~tasks'[t].cancelled)
         => Len(ListenerCalls(trace', t)) = Len(listeners_')

\* C21: the registries are read when the dispatch runs: each invocation
\* takes the entry the registry holds then, and the loops go through the
\* registry as it stands when they end, so what was registered after
\* logEvent returned takes part; and logEvent itself invokes nothing, also
\* when isReadyPromise_ has already resolved.
C21_RegistryReadLive ==
  [][LogEventOnlySchedules /\ InvokesCurrentEntry /\ LoopsEndAtCurrentLength]_vars

\* C21 witness: the activation of the one accepted event has returned
\* after invoking two filterers and then handleClientEvent_ as the second of
\* two listeners, with registration open throughout.
C21_Witness ==
  /\ Len(tasks) = 1
  /\ tasks[1].pc = "done" /\ ~tasks[1].cancelled
  /\ Len(FiltererCalls(trace, 1)) = 2
  /\ LET lc == ListenerCalls(trace, 1) IN
       /\ Len(lc) = 2
       /\ lc[2].fn = "handleClientEvent_"
  /\ isReadyPromise_ = "resolved"

====
